---- MODULE Spec2Model ----
(***************************************************************************)
(* Model of the arbitrage finder: PairMap::to_graph, Graph::log_negate,    *)
(* ArbitrageIteration::new / compute_arbitrage_opportunities / trades.     *)
(*                                                                         *)
(* Representation of the program's values:                                 *)
(*  - a String is a sequence of one-character strings;                     *)
(*  - a u64 rate weight is a natural number written little-endian in base  *)
(*    10^4 (Base), without leading zero limbs, because the weights of the  *)
(*    challenge fixture (up to 11635226544401) do not fit the 32-bit       *)
(*    integers of TLC; every input of the model is far below 2^64;         *)
(*  - an f64 of log space (edge weights, min_dist) is an integer number of *)
(*    millionths, or F64Max (f64::MAX) or PosInf (+inf);                   *)
(*    log2 is tabulated (Log2Table) for the weights the inputs produce;    *)
(*  - an f64 amount of the replay is the exact decimal num / 10^(8*scale). *)
(***************************************************************************)
EXTENDS Integers, Sequences, FiniteSets, TLC

\* ------------------------------------------------------------------------
\* Bounds of the model
\* ------------------------------------------------------------------------
MaxTokens == 3
MaxVaried == 1
MaxKeyLen == 3
MaxValLen == 3

\* ------------------------------------------------------------------------
\* Program constants
\* ------------------------------------------------------------------------
\* 100000000u64 = Base^ScaleLimbs: the fixed-point scale of a rate
Base == 10000
ScaleLimbs == 2
\* f64::MAX and +inf, above every finite value of log space
F64Max == 2000000000
PosInf == 2100000000
\* vec![-1i32; n]
NoPre == -1

\* ------------------------------------------------------------------------
\* Characters and strings
\* ------------------------------------------------------------------------
\* The characters the model uses, in byte order.
Alphabet ==
  << " ", "+", ",", "-", ".", "0", "1", "2", "3", "4", "5", "6", "7", "8",
     "9", ":", "<", ">", "A", "B", "C", "D", "E", "G", "I", "O", "R", "T",
     "U", "a", "b", "d", "e", "g", "i", "m", "n", "o", "p", "r", "s", "t",
     "u", "w", "x", "y" >>

Code(c) == CHOOSE i \in 1..Len(Alphabet) : Alphabet[i] = c

Digits == << "0", "1", "2", "3", "4", "5", "6", "7", "8", "9" >>

IsDigit(c) == \E i \in 1..10 : Digits[i] = c

DigitVal(c) == (CHOOSE i \in 1..10 : Digits[i] = c) - 1

\* Ord for String: bytewise lexicographic, a proper prefix comes first.
RECURSIVE StrLess(_, _)
StrLess(s, t) ==
  IF t = << >> THEN FALSE
  ELSE IF s = << >> THEN TRUE
  ELSE IF Head(s) = Head(t) THEN StrLess(Tail(s), Tail(t))
  ELSE Code(Head(s)) < Code(Head(t))

\* str::split(sep): the segments between the separators, at least one.
RECURSIVE Split(_, _)
Split(s, sep) ==
  IF s = << >> THEN << << >> >>
  ELSE IF Head(s) = sep THEN << << >> >> \o Split(Tail(s), sep)
  ELSE LET rest == Split(Tail(s), sep)
       IN  << << Head(s) >> \o Head(rest) >> \o Tail(rest)

\* [String]::join(sep)
RECURSIVE Join(_, _)
Join(parts, sep) ==
  IF parts = << >> THEN << >>
  ELSE IF Len(parts) = 1 THEN parts[1]
  ELSE parts[1] \o sep \o Join(Tail(parts), sep)

\* The elements of a finite set of strings in ascending order (sort()).
RECURSIVE SortStrings(_)
SortStrings(S) ==
  IF S = {} THEN << >>
  ELSE LET m == CHOOSE x \in S : \A y \in S \ {x} : StrLess(x, y)
       IN  << m >> \o SortStrings(S \ {m})

\* ------------------------------------------------------------------------
\* u64 arithmetic on base-10^4 limbs
\* ------------------------------------------------------------------------
RECURSIVE BigNorm(_)
BigNorm(a) ==
  IF a = << >> THEN << >>
  ELSE IF a[Len(a)] = 0 THEN BigNorm(SubSeq(a, 1, Len(a) - 1))
  ELSE a

RECURSIVE BigAddC(_, _, _)
BigAddC(a, b, carry) ==
  IF a = << >> /\ b = << >> THEN (IF carry = 0 THEN << >> ELSE << carry >>)
  ELSE LET x == IF a = << >> THEN 0 ELSE Head(a)
           y == IF b = << >> THEN 0 ELSE Head(b)
           t == x + y + carry
       IN  << t % Base >>
             \o BigAddC(IF a = << >> THEN a ELSE Tail(a),
                        IF b = << >> THEN b ELSE Tail(b), t \div Base)

BigAdd(a, b) == BigNorm(BigAddC(a, b, 0))

RECURSIVE BigMulSmallC(_, _, _)
BigMulSmallC(a, m, carry) ==
  IF a = << >> THEN (IF carry = 0 THEN << >> ELSE << carry >>)
  ELSE LET t == Head(a) * m + carry
       IN  << t % Base >> \o BigMulSmallC(Tail(a), m, t \div Base)

BigMulSmall(a, m) == BigNorm(BigMulSmallC(a, m, 0))

\* a * Base^k
RECURSIVE BigShift(_, _)
BigShift(a, k) ==
  IF a = << >> \/ k = 0 THEN a ELSE BigShift(<< 0 >> \o a, k - 1)

RECURSIVE BigMul(_, _)
BigMul(a, b) ==
  IF b = << >> THEN << >>
  ELSE BigAdd(BigMulSmall(a, Head(b)), BigShift(BigMul(a, Tail(b)), 1))

\* a > b
RECURSIVE BigGtSameLen(_, _)
BigGtSameLen(a, b) ==
  IF a = << >> THEN FALSE
  ELSE IF a[Len(a)] # b[Len(b)] THEN a[Len(a)] > b[Len(b)]
  ELSE BigGtSameLen(SubSeq(a, 1, Len(a) - 1), SubSeq(b, 1, Len(b) - 1))

BigGt(a, b) ==
  IF Len(a) # Len(b) THEN Len(a) > Len(b) ELSE BigGtSameLen(a, b)

\* a small natural as limbs
RECURSIVE BigOf(_)
BigOf(k) == IF k = 0 THEN << >> ELSE << k % Base >> \o BigOf(k \div Base)

\* ------------------------------------------------------------------------
\* pairs.rs: PairMap::to_graph
\* ------------------------------------------------------------------------
\* The value of a string of decimal digits, four digits to a limb.
RECURSIVE SmallValue(_, _)
SmallValue(s, acc) ==
  IF s = << >> THEN acc ELSE SmallValue(Tail(s), 10 * acc + DigitVal(Head(s)))

RECURSIVE DigitsLimbs(_)
DigitsLimbs(s) ==
  IF Len(s) <= 4 THEN << SmallValue(s, 0) >>
  ELSE << SmallValue(SubSeq(s, Len(s) - 3, Len(s)), 0) >>
         \o DigitsLimbs(SubSeq(s, 1, Len(s) - 4))

\* str::parse::<u64>: an optional '+', then one or more decimal digits.
ParseU64(s) ==
  LET body == IF s # << >> /\ Head(s) = "+" THEN Tail(s) ELSE s
  IN  IF body # << >> /\ \A i \in 1..Len(body) : IsDigit(body[i])
      THEN [ok |-> TRUE, val |-> BigNorm(DigitsLimbs(body))]
      ELSE [ok |-> FALSE, val |-> << >>]

\* What the body of the loop of to_graph does with one entry (k, v):
\* outcome "panic" (index out of bounds), "error" (the ? operator) or "ok"
\* with the two tokens and whole * 100000000u64 + fractional.
ParseEntry(k, v) ==
  LET tokens == Split(k, "-")
      v_parts == Split(v, ".")
      whole == ParseU64(v_parts[1])
      fractional == ParseU64(v_parts[2])
      failed(o) == [outcome |-> o, first_token |-> << >>, second_token |-> << >>,
                    v_as_u64 |-> << >>]
  IN  IF Len(tokens) < 2 THEN failed("panic")
      ELSE IF ~whole.ok THEN failed("error")
      ELSE IF Len(v_parts) < 2 THEN failed("panic")
      ELSE IF ~fractional.ok THEN failed("error")
      ELSE [outcome |-> "ok", first_token |-> tokens[1], second_token |-> tokens[2],
            v_as_u64 |-> BigAdd(BigShift(whole.val, ScaleLimbs), fractional.val)]

\* graph_inner after the match on get_mut(first_token)
InsertEdge(g, a, b, w) ==
  IF a \in DOMAIN g
    THEN [g EXCEPT ![a] = (b :> w) @@ g[a]]
    ELSE (a :> (b :> w)) @@ g

\* to_graph over the entries keys, from graph_inner = g: the results it can
\* return. The first entry the loop cannot take ends it with a panic or an
\* Err, and any such entry can come first in the iteration order of the
\* HashMap; two entries for one edge leave the value of either (last write).
RECURSIVE ToGraphResults(_, _, _)
ToGraphResults(m, keys, g) ==
  IF keys = {} THEN { [phase |-> "graph", graph |-> g] }
  ELSE LET k == CHOOSE x \in keys : TRUE
           e == ParseEntry(k, m[k])
           rest == keys \ {k}
       IN  IF e.outcome # "ok"
             THEN { [phase |-> e.outcome, graph |-> << >>] }
                    \cup { r \in ToGraphResults(m, rest, g) : r.phase # "graph" }
           ELSE IF e.first_token \in DOMAIN g /\ e.second_token \in DOMAIN g[e.first_token]
             THEN ToGraphResults(m, rest, g)
                    \cup ToGraphResults(m, rest,
                           InsertEdge(g, e.first_token, e.second_token, e.v_as_u64))
           ELSE ToGraphResults(m, rest,
                  InsertEdge(g, e.first_token, e.second_token, e.v_as_u64))

\* ------------------------------------------------------------------------
\* pairs.rs: Graph::log_negate, and the f64 values of log space
\* ------------------------------------------------------------------------
\* log2 of a weight in millionths, rounded to nearest, for the weights of
\* the model's inputs: 0.00000001, 0.5, 1.0, 2.0 and the challenge rates.
Log2Table ==
  { << << 1 >>, 0 >>,
    << << 868 >>, 9761551 >>,
    << << 4290 >>, 12066762 >>,
    << << 4355 >>, 12088457 >>,
    << << 5399, 2017 >>, 24266094 >>,
    << << 9905, 2053 >>, 24291926 >>,
    << << 0, 5000 >>, 25575425 >>,
    << << 6521, 9907 >>, 26562040 >>,
    << << 0, 0, 1 >>, 26575425 >>,
    << << 3789, 211, 1 >>, 26605602 >>,
    << << 0, 0, 2 >>, 27575425 >>,
    << << 4333, 9320, 4 >>, 28877610 >>,
    << << 5777, 427, 5 >>, 28909638 >>,
    << << 5838, 8865, 3258, 2 >>, 41080919 >>,
    << << 5530, 1391, 3524, 2 >>, 41097279 >>,
    << << 4401, 2654, 6352, 11 >>, 43403565 >> }

Log2Micro(w) == (CHOOSE e \in Log2Table : e[1] = w)[2]

\* The log weight without the negation
LogWeightNotNegated(w) == IF w = << >> THEN PosInf ELSE Log2Micro(w)

\* -1f64 * (w as f64).log2(); log2(0) is -inf, so a zero weight gives +inf
LogWeight(w) == IF w = << >> THEN PosInf ELSE 0 - Log2Micro(w)

LogNegate(g) == [a \in DOMAIN g |-> [b \in DOMAIN g[a] |-> LogWeight(g[a][b])]]

\* f64 addition: +inf absorbs everything, f64::MAX absorbs every finite
\* weight (all are below its unit in the last place); else exact.
FAdd(a, b) ==
  IF a = PosInf \/ b = PosInf THEN PosInf
  ELSE IF a = F64Max \/ b = F64Max THEN F64Max
  ELSE a + b

\* ------------------------------------------------------------------------
\* algorithm.rs: compute_arbitrage_opportunities
\* ------------------------------------------------------------------------
\* HashMap index: log_negated_graph[a][b] panics when a key is missing.
HasEdge(g, a, b) == a \in DOMAIN g /\ b \in DOMAIN g[a]

\* One pass of the two inner loops, from the pair number k = source * n +
\* dest on; st holds min_dist, pre and whether an index panicked.
RECURSIVE RelaxFrom(_, _, _, _, _)
RelaxFrom(lg, im, n, k, st) ==
  IF k = n * n \/ st.panic THEN st
  ELSE LET source_curr == k \div n
           dest_curr == k % n
       IN  IF source_curr = dest_curr THEN RelaxFrom(lg, im, n, k + 1, st)
           ELSE IF ~HasEdge(lg, im[source_curr], im[dest_curr])
             THEN [st EXCEPT !.panic = TRUE]
           ELSE LET w == lg[im[source_curr]][im[dest_curr]]
                    through == FAdd(st.min_dist[source_curr], w)
                IN  IF w = F64Max THEN RelaxFrom(lg, im, n, k + 1, st)
                    ELSE IF st.min_dist[dest_curr] > through
                      THEN RelaxFrom(lg, im, n, k + 1,
                             [st EXCEPT !.min_dist[dest_curr] = through,
                                        !.pre[dest_curr] = source_curr])
                    ELSE RelaxFrom(lg, im, n, k + 1, st)

\* ------------------------------------------------------------------------
\* algorithm.rs: trades
\* ------------------------------------------------------------------------
InSeq(x, s) == \E i \in 1..Len(s) : s[i] = x

\* The while loop that walks the predecessors. pre[source_curr] as usize
\* of the -1 sentinel is usize::MAX: it is not in print_cycle, becomes
\* source_curr, and the next self.pre[source_curr] is out of bounds.
RECURSIVE Walk(_, _, _)
Walk(p, print_cycle, source_curr) ==
  IF p[source_curr] = NoPre
    THEN [panic |-> TRUE, print_cycle |-> print_cycle, source_curr |-> source_curr]
  ELSE IF InSeq(p[source_curr], print_cycle)
    THEN [panic |-> FALSE, print_cycle |-> print_cycle, source_curr |-> source_curr]
  ELSE Walk(p, Append(print_cycle, p[source_curr]), p[source_curr])

Separator == << " ", "<", "-", "-", ">", " " >>

PathOf(im, print_cycle) ==
  Join([i \in 1..Len(print_cycle) |-> im[print_cycle[i]]], Separator)

\* The replay loop from position idx on: new_amount *= rate / 10^8.
\* An amount is num / 10^(8 * scale).
RECURSIVE ReplayFrom(_, _, _, _, _)
ReplayFrom(g, im, print_cycle, idx, new_amount) ==
  IF idx > Len(print_cycle) - 1 \/ new_amount.panic THEN new_amount
  ELSE LET first_token == im[print_cycle[idx]]
           second_token == im[print_cycle[idx + 1]]
       IN  IF ~HasEdge(g, first_token, second_token)
             THEN [new_amount EXCEPT !.panic = TRUE]
           ELSE ReplayFrom(g, im, print_cycle, idx + 1,
                  [panic |-> FALSE,
                   num |-> BigMul(new_amount.num, g[first_token][second_token]),
                   scale |-> new_amount.scale + 1])

Replay(g, im, print_cycle, amount) ==
  ReplayFrom(g, im, print_cycle, 1,
             [panic |-> FALSE, num |-> BigOf(amount), scale |-> 0])

\* The comparison of the profitability check with >= in place of >
ProfitableOrEqual(new_amount, amount) ==
  ~BigGt(BigShift(BigOf(amount), ScaleLimbs * new_amount.scale), new_amount.num)

\* new_amount > trade_amount as f64
Profitable(new_amount, amount) ==
  BigGt(new_amount.num, BigShift(BigOf(amount), ScaleLimbs * new_amount.scale))

\* Decimal digits of a natural, and of a natural in a fixed width.
RECURSIVE NatDigits(_)
NatDigits(k) ==
  IF k < 10 THEN << Digits[k + 1] >>
  ELSE NatDigits(k \div 10) \o << Digits[(k % 10) + 1] >>

RECURSIVE PadDigits(_, _)
PadDigits(k, width) ==
  IF width = 0 THEN << >>
  ELSE PadDigits(k \div 10, width - 1) \o << Digits[(k % 10) + 1] >>

RECURSIVE BigDigits(_)
BigDigits(a) ==
  IF a = << >> THEN << "0" >>
  ELSE IF Len(a) = 1 THEN NatDigits(a[1])
  ELSE BigDigits(Tail(a)) \o PadDigits(Head(a), 4)

Limb(a, i) == IF i <= Len(a) THEN a[i] ELSE 0

\* {:.8} of an amount with scale >= 1: the value times 10^8 rounded to an
\* integer (half to even), then whole part, '.', eight digits.
Format8(new_amount) ==
  LET drop == ScaleLimbs * (new_amount.scale - 1)
      num == new_amount.num
      low == BigNorm([i \in 1..drop |-> Limb(num, i)])
      high == IF Len(num) > drop THEN SubSeq(num, drop + 1, Len(num)) ELSE << >>
      half == [i \in 1..drop |-> IF i = drop THEN Base \div 2 ELSE 0]
      up == drop > 0 /\ (BigGt(low, half) \/ (low = half /\ Limb(high, 1) % 2 = 1))
      q == IF up THEN BigAdd(high, << 1 >>) ELSE high
      whole == IF Len(q) > ScaleLimbs THEN SubSeq(q, ScaleLimbs + 1, Len(q)) ELSE << >>
  IN  BigDigits(whole) \o << "." >> \o PadDigits(Limb(q, 2), 4) \o PadDigits(Limb(q, 1), 4)

ReportPrefix ==
  << "A", "r", "b", "i", "t", "r", "a", "g", "e", " ", "o", "p", "p", "o",
     "r", "t", "u", "n", "i", "t", "y", ":", " " >>

ReportInfix ==
  << ",", " ", "n", "e", "w", " ", "t", "r", "a", "d", "e", " ", "a", "m",
     "o", "u", "n", "t", " ", "i", "s", " " >>

\* format!("Arbitrage opportunity: {}, new trade amount is {:.8}", ..)
Report(path, new_amount) ==
  ReportPrefix \o path \o ReportInfix \o Format8(new_amount)

\* The dedup test when paths is never consulted
AlreadySeenNever(path, ps) == FALSE

\* paths.contains(&path)
AlreadySeen(path, ps) == path \in ps

\* One evaluation of the body of the inner loop of trades for the pair
\* (source_curr, dest_curr), given the sets paths and arbitrage_paths.
ScanPair(lg, g, im, md, p, amount, source_curr, dest_curr, ps, aps) ==
  LET quiet == [panic |-> FALSE, violated |-> FALSE, source_curr |-> source_curr,
                print_cycle |-> << >>, path |-> << >>, replayed |-> FALSE,
                reported |-> FALSE, text |-> << >>,
                paths |-> ps, arbitrage_paths |-> aps]
  IN  IF ~HasEdge(lg, im[source_curr], im[dest_curr])
        THEN [quiet EXCEPT !.panic = TRUE]
      ELSE IF ~(md[dest_curr] > FAdd(md[source_curr], lg[im[source_curr]][im[dest_curr]]))
        THEN quiet
      ELSE LET walk == Walk(p, << dest_curr >>, source_curr)
               print_cycle == Append(walk.print_cycle, dest_curr)
               path == PathOf(im, print_cycle)
               new_amount == Replay(g, im, print_cycle, amount)
               found == [quiet EXCEPT !.violated = TRUE,
                                      !.source_curr = walk.source_curr,
                                      !.print_cycle = print_cycle,
                                      !.path = path]
           IN  IF walk.panic THEN [quiet EXCEPT !.panic = TRUE]
               ELSE IF AlreadySeen(path, ps) THEN found
               ELSE IF new_amount.panic THEN [quiet EXCEPT !.panic = TRUE]
               ELSE IF Profitable(new_amount, amount)
                 THEN [found EXCEPT !.replayed = TRUE, !.reported = TRUE,
                                    !.text = Report(path, new_amount),
                                    !.paths = ps \cup {path},
                                    !.arbitrage_paths = aps \cup {Report(path, new_amount)}]
               ELSE [found EXCEPT !.replayed = TRUE, !.paths = ps \cup {path}]

\* ------------------------------------------------------------------------
\* State
\* ------------------------------------------------------------------------
VARIABLES
  rates,              \* PairMap.rates: key string -> rate string
  trade_amount,       \* Args.trade_amount
  phase,              \* position in main: "input", "graph", "logged", "new",
                      \* "relax", "scan", "done"; or "error" / "panic"
  graph,              \* Graph: token -> token -> u64
  log_negated_graph,  \* token -> token -> f64
  min_dist,           \* ArbitrageIteration.min_dist, indexed from 0
  pre,                \* ArbitrageIteration.pre, indexed from 0
  indices_map,        \* ArbitrageIteration.indices_map, indexed from 0
  round,              \* rounds of relaxation done
  source_iter,        \* value the range 0..n of the outer loop of trades gave
  source_curr,        \* the loop variable `mut source_curr` of trades
  dest_curr,          \* the loop variable of the inner loop of trades
  paths,              \* trades: paths
  arbitrage_paths,    \* trades: arbitrage_paths
  arbitrage,          \* Trades.arbitrage
  scanned,            \* history: the pairs (source, dest) the test was made on
  found,              \* history: the paths reconstructed, in order
  replayed,           \* history: the paths replayed, in order
  reports             \* history: print_cycle and text of every report

vars ==
  << rates, trade_amount, phase, graph, log_negated_graph, min_dist, pre,
     indices_map, round, source_iter, source_curr, dest_curr, paths,
     arbitrage_paths, arbitrage, scanned, found, replayed, reports >>

\* ------------------------------------------------------------------------
\* Inputs
\* ------------------------------------------------------------------------
TokenNames == << << "A" >>, << "B" >>, << "C" >>, << "D" >>, << "E" >> >>

TradeAmounts == {0, 100}

PairKey(a, b) == a \o << "-" >> \o b

\* A rate string with eight fractional digits
DecStr(whole, frac) == NatDigits(whole) \o << "." >> \o PadDigits(frac, 8)

UnitRate == DecStr(1, 0)

VariedRates == { DecStr(0, 0), DecStr(0, 1), DecStr(0, 50000000), DecStr(2, 0) }

Edges(n) == { e \in (1..n) \X (1..n) : e[1] # e[2] }

SelfPairs(n) == { << i, i >> : i \in 1..n }

\* The rate every edge between distinct tokens has unless it is varied
DefaultRates == { DecStr(1, 0), DecStr(0, 1) }

\* The rate map over the ordered pairs ps of token numbers: a self-pair is
\* at 1.00000000, another edge has the rate vals gives it, else default.
RECURSIVE RateMapOver(_, _, _)
RateMapOver(ps, default, vals) ==
  IF ps = {} THEN << >>
  ELSE LET e == CHOOSE x \in ps : TRUE
       IN  (PairKey(TokenNames[e[1]], TokenNames[e[2]])
              :> (IF e[1] = e[2] THEN UnitRate
                  ELSE IF e \in DOMAIN vals THEN vals[e] ELSE default))
             @@ RateMapOver(ps \ {e}, default, vals)

\* The rate map of n tokens: every ordered pair of distinct tokens, and the
\* self-pairs when with_self.
RateMap(n, with_self, default, vals) ==
  RateMapOver(Edges(n) \cup (IF with_self THEN SelfPairs(n) ELSE {}), default, vals)

BTC == << "B", "T", "C" >>

BORG == << "B", "O", "R", "G" >>

DAI == << "D", "A", "I" >>

EUR == << "E", "U", "R" >>

\* The rates of tests::challenge_example
ChallengeExample ==
  (PairKey(BTC, BTC) :> DecStr(1, 0)) @@
  (PairKey(BTC, BORG) :> DecStr(116352, 26544401)) @@
  (PairKey(BTC, DAI) :> DecStr(23524, 13915530)) @@
  (PairKey(BTC, EUR) :> DecStr(23258, 88655838)) @@
  (PairKey(BORG, BTC) :> DecStr(0, 868)) @@
  (PairKey(BORG, BORG) :> DecStr(1, 0)) @@
  (PairKey(BORG, DAI) :> DecStr(0, 20539905)) @@
  (PairKey(BORG, EUR) :> DecStr(0, 20175399)) @@
  (PairKey(DAI, BTC) :> DecStr(0, 4290)) @@
  (PairKey(DAI, BORG) :> DecStr(4, 93204333)) @@
  (PairKey(DAI, DAI) :> DecStr(1, 0)) @@
  (PairKey(DAI, EUR) :> DecStr(0, 99076521)) @@
  (PairKey(EUR, BTC) :> DecStr(0, 4355)) @@
  (PairKey(EUR, BORG) :> DecStr(5, 4275777)) @@
  (PairKey(EUR, DAI) :> DecStr(1, 2113789)) @@
  (PairKey(EUR, EUR) :> DecStr(1, 0))

StringsUpTo(chars, len) == UNION { [1..l -> chars] : l \in 0..len }

KeyChars == { "A", "B", "-" }

ValChars == { "0", "1", ".", "+", "x" }

\* The state main starts the pipeline in, for the rate map m.
Start(m, amount) ==
  /\ rates = m
  /\ trade_amount = amount
  /\ phase = "input"
  /\ graph = << >>
  /\ log_negated_graph = << >>
  /\ min_dist = << >>
  /\ pre = << >>
  /\ indices_map = << >>
  /\ round = 0
  /\ source_iter = 0
  /\ source_curr = 0
  /\ dest_curr = 0
  /\ paths = {}
  /\ arbitrage_paths = {}
  /\ arbitrage = << >>
  /\ scanned = {}
  /\ found = << >>
  /\ replayed = << >>
  /\ reports = {}

\* Well-formed rate maps of 1..MaxTokens tokens, all edges at one default
\* rate but at most MaxVaried of them, and the challenge example.
Init ==
  \E amount \in TradeAmounts :
    \/ \E n \in 1..MaxTokens, with_self \in BOOLEAN, default \in DefaultRates :
         \E varied \in { v \in SUBSET Edges(n) : Cardinality(v) <= MaxVaried } :
           \E vals \in [varied -> VariedRates] :
             Start(RateMap(n, with_self, default, vals), amount)
    \/ Start(ChallengeExample, amount)

\* One-entry rate maps over arbitrary short strings.
InitRaw ==
  \E k \in StringsUpTo(KeyChars, MaxKeyLen), v \in StringsUpTo(ValChars, MaxValLen) :
    Start(k :> v, 100)

\* ------------------------------------------------------------------------
\* Actions
\* ------------------------------------------------------------------------
\* main.rs: pairs_map.to_graph()?
ToGraph ==
  /\ phase = "input"
  /\ \E r \in ToGraphResults(rates, DOMAIN rates, << >>) :
       /\ phase' = r.phase
       /\ graph' = r.graph
  /\ UNCHANGED << rates, trade_amount, log_negated_graph, min_dist, pre,
                  indices_map, round, source_iter, source_curr, dest_curr,
                  paths, arbitrage_paths, arbitrage, scanned, found, replayed,
                  reports >>

\* main.rs: graph.log_negate()
LogNegateGraph ==
  /\ phase = "graph"
  /\ log_negated_graph' = LogNegate(graph)
  /\ phase' = "logged"
  /\ UNCHANGED << rates, trade_amount, graph, min_dist, pre, indices_map,
                  round, source_iter, source_curr, dest_curr, paths,
                  arbitrage_paths, arbitrage, scanned, found, replayed,
                  reports >>

\* main.rs: ArbitrageIteration::new(graph.as_ref().keys().len())
New ==
  /\ phase = "logged"
  /\ LET tokens_count == Cardinality(DOMAIN graph)
     IN  /\ min_dist' = [i \in 0..tokens_count - 1 |-> F64Max]
         /\ pre' = [i \in 0..tokens_count - 1 |-> NoPre]
  /\ indices_map' = << >>
  /\ phase' = "new"
  /\ UNCHANGED << rates, trade_amount, graph, log_negated_graph, round,
                  source_iter, source_curr, dest_curr, paths, arbitrage_paths,
                  arbitrage, scanned, found, replayed, reports >>

\* compute_arbitrage_opportunities up to its loops: the sorted index map
\* and min_dist[0] = 0 (which panics on an empty vector, as does n - 1).
ComputeSetup ==
  /\ phase = "new"
  /\ LET n == Cardinality(DOMAIN log_negated_graph)
         sorted == SortStrings(DOMAIN log_negated_graph)
     IN  /\ indices_map' = [i \in 0..n - 1 |-> sorted[i + 1]]
         /\ IF n = 0
              THEN /\ phase' = "panic"
                   /\ UNCHANGED min_dist
              ELSE /\ min_dist' = [min_dist EXCEPT ![0] = 0]
                   /\ phase' = IF n - 1 = 0 THEN "scan" ELSE "relax"
  /\ round' = 0
  /\ UNCHANGED << rates, trade_amount, graph, log_negated_graph, pre,
                  source_iter, source_curr, dest_curr, paths, arbitrage_paths,
                  arbitrage, scanned, found, replayed, reports >>

\* One iteration of `for _ in 0..n - 1`
RelaxRound ==
  /\ phase = "relax"
  /\ \E n \in { Cardinality(DOMAIN log_negated_graph) } :
       \E st \in { RelaxFrom(log_negated_graph, indices_map, n, 0,
                              [min_dist |-> min_dist, pre |-> pre, panic |-> FALSE]) } :
         /\ min_dist' = st.min_dist
         /\ pre' = st.pre
         /\ round' = round + 1
         /\ phase' = IF st.panic THEN "panic"
                     ELSE IF round + 1 = n - 1 THEN "scan" ELSE "relax"
  /\ UNCHANGED << rates, trade_amount, graph, log_negated_graph, indices_map,
                  source_iter, source_curr, dest_curr, paths, arbitrage_paths,
                  arbitrage, scanned, found, replayed, reports >>

\* One iteration of the inner loop of trades; the last one also sorts the
\* reports and returns.
TradesStep ==
  /\ phase = "scan"
  /\ \E n \in { Cardinality(DOMAIN min_dist) } :
       \E r \in { ScanPair(log_negated_graph, graph, indices_map, min_dist, pre,
                            trade_amount, source_curr, dest_curr, paths,
                            arbitrage_paths) } :
         IF r.panic
         THEN /\ phase' = "panic"
              /\ UNCHANGED << source_iter, source_curr, dest_curr, paths,
                              arbitrage_paths, arbitrage, scanned, found,
                              replayed, reports >>
         ELSE /\ paths' = r.paths
              /\ arbitrage_paths' = r.arbitrage_paths
              /\ scanned' = scanned \cup { << source_curr, dest_curr >> }
              /\ found' = IF r.violated THEN Append(found, r.path) ELSE found
              /\ replayed' = IF r.replayed THEN Append(replayed, r.path) ELSE replayed
              /\ reports' = IF r.reported
                              THEN reports \cup { [print_cycle |-> r.print_cycle,
                                                   text |-> r.text] }
                              ELSE reports
              /\ IF dest_curr + 1 < n
                   THEN /\ dest_curr' = dest_curr + 1
                        /\ source_curr' = r.source_curr
                        /\ UNCHANGED << source_iter, arbitrage, phase >>
                 ELSE IF source_iter + 1 < n
                   THEN /\ source_iter' = source_iter + 1
                        /\ source_curr' = source_iter + 1
                        /\ dest_curr' = 0
                        /\ UNCHANGED << arbitrage, phase >>
                 ELSE /\ arbitrage' = SortStrings(r.arbitrage_paths)
                      /\ phase' = "done"
                      /\ source_curr' = r.source_curr
                      /\ UNCHANGED << source_iter, dest_curr >>
  /\ UNCHANGED << rates, trade_amount, graph, log_negated_graph, min_dist,
                  pre, indices_map, round >>

Next ==
  \/ ToGraph
  \/ LogNegateGraph
  \/ New
  \/ ComputeSetup
  \/ RelaxRound
  \/ TradesStep

Spec == Init /\ [][Next]_vars

\* The build phase alone, on arbitrary short strings.
NextBuild == ToGraph

SpecBuild == InitRaw /\ [][NextBuild]_vars

\* ------------------------------------------------------------------------
\* Properties
\* ------------------------------------------------------------------------
Running == phase \in {"new", "relax", "scan", "done"}

\* The tokens of the graph in sorted order, indexed from 0
SortedTokens ==
  LET sorted == SortStrings(DOMAIN graph)
  IN  [i \in 0..Len(sorted) - 1 |-> sorted[i + 1]]

\* The replay of print_cycle in the integer-weighted graph from amount
\* ends strictly above amount.
Gains(print_cycle, amount) ==
  LET a == Replay(graph, SortedTokens, print_cycle, amount)
  IN  /\ ~a.panic
      /\ BigGt(a.num, BigShift(BigOf(amount), ScaleLimbs * a.scale))

ReportedPath(r) == PathOf(indices_map, r.print_cycle)

\* Every ordered pair of tokens, self-pairs included, has a rate.
CompleteWithSelf ==
  /\ DOMAIN graph # {}
  /\ \A a \in DOMAIN graph : DOMAIN graph[a] = DOMAIN graph

\* Every ordered pair of distinct tokens has a rate, no token has a self-pair.
CompleteNoSelf ==
  /\ DOMAIN graph # {}
  /\ \A a \in DOMAIN graph : DOMAIN graph[a] = DOMAIN graph \ {a}

AllRatesPositive ==
  \A a \in DOMAIN graph : \A b \in DOMAIN graph[a] : graph[a][b] # << >>

\* The closed walks over distinct vertices of 0..n-1: v1, .., vl, v1.
ClosedCycles(n) ==
  { Append(c, c[1]) :
      c \in UNION { { s \in [1..l -> 0..n - 1] :
                        \A i, j \in 1..l : i # j => s[i] # s[j] } : l \in 1..n } }

\* No cycle of the graph has a compounded rate above 1.0.
NoArbitrageGraph ==
  /\ CompleteWithSelf
  /\ \A c \in ClosedCycles(Cardinality(DOMAIN graph)) : ~Gains(c, 1)

ChallengeReport(tokens, whole, frac) ==
  ReportPrefix \o Join(tokens, Separator) \o ReportInfix \o DecStr(whole, frac)

\* C2: on the rates of challenge_example with trade amount 100 the pipeline
\* returns exactly the four reports of the test, in its order.
ChallengeComplete ==
  (rates = ChallengeExample /\ trade_amount = 100 /\ phase = "done") =>
    arbitrage = << ChallengeReport(<< BORG, EUR, DAI, BORG >>, 101, 60928773),
                   ChallengeReport(<< BTC, EUR, DAI, BTC >>, 101, 88977518),
                   ChallengeReport(<< DAI, EUR, DAI >>, 101, 17078960),
                   ChallengeReport(<< EUR, DAI, EUR >>, 101, 17078960) >>

ChallengeCompleteWitness ==
  /\ rates = ChallengeExample
  /\ trade_amount = 100
  /\ phase = "done"
  /\ Len(arbitrage) = 4

\* C3: on a complete graph without a cycle of compounded rate above 1.0 the
\* pipeline does not abort and returns no report.
NoArbitrageEmpty ==
  NoArbitrageGraph =>
    /\ phase # "panic"
    /\ phase = "done" => arbitrage = << >>

\* C4: no path is replayed twice, no path is in two reports, and no report
\* is twice in the list trades returns.
DedupInvariant ==
  /\ \A i, j \in 1..Len(replayed) : i # j => replayed[i] # replayed[j]
  /\ \A r1, r2 \in reports : ReportedPath(r1) = ReportedPath(r2) => r1 = r2
  /\ \A i, j \in 1..Len(arbitrage) : i # j => arbitrage[i] # arbitrage[j]
  /\ phase = "done" => Len(arbitrage) = Cardinality(reports)

DedupWitness ==
  /\ phase = "done"
  /\ \E i, j \in 1..Len(found) :
       /\ i < j
       /\ found[i] = found[j]
       /\ \E r \in reports : ReportedPath(r) = found[i]

\* C5: a single token with only its self-pair at 1.00000000 runs through
\* the pipeline without error or crash and gives an empty list.
SingleTokenEmpty ==
  (\E t \in 1..Len(TokenNames) :
      rates = (PairKey(TokenNames[t], TokenNames[t]) :> UnitRate)) =>
    /\ phase \notin {"error", "panic"}
    /\ phase = "done" => arbitrage = << >>

\* C6: a rate map with a pair at 0.00000000 is rejected: the pipeline does
\* not go past the build and transform phases, and no infinite log weight
\* reaches relaxation or extraction.
ZeroRateRejected ==
  /\ (\E k \in DOMAIN rates : rates[k] = DecStr(0, 0)) => ~Running
  /\ Running =>
       \A a \in DOMAIN log_negated_graph : \A b \in DOMAIN log_negated_graph[a] :
         log_negated_graph[a][b] # PosInf

\* A part of a rate string that is a valid non-negative integer
ValidPart(parts, i) ==
  /\ i <= Len(parts)
  /\ ParseU64(parts[i]).ok

Malformed(k, v) ==
  \/ ~InSeq("-", k)
  \/ ~ValidPart(Split(v, "."), 1)
  \/ ~ValidPart(Split(v, "."), 2)

\* C7: to_graph never aborts, and returns an error whenever a key lacks the
\* delimiter or a segment of a rate is missing or not a non-negative integer.
MalformedIsError ==
  /\ phase # "panic"
  /\ (phase # "input" /\ \E k \in DOMAIN rates : Malformed(k, rates[k])) =>
       phase = "error"

\* C8: on a graph with every ordered pair of distinct tokens and no
\* self-pair, relaxation and extraction run to completion.
SelfEdgesOptional == CompleteNoSelf => phase # "panic"

\* C9: the violation test is made on every ordered pair of vertex indices,
\* and the source tested in an outer iteration is the one the range gave.
FullRescan ==
  /\ phase = "scan" => source_curr = source_iter
  /\ phase = "done" =>
       scanned = (0..Cardinality(DOMAIN min_dist) - 1) \X (0..Cardinality(DOMAIN min_dist) - 1)

\* C10: on a complete graph of two or more tokens, self-pairs included,
\* with every rate above zero, relaxation and extraction do not abort.
RelaxExtractTotal ==
  (CompleteWithSelf /\ AllRatesPositive /\ Cardinality(DOMAIN graph) >= 2) =>
    phase # "panic"

====
